---- MODULE Spec2Model ----
(***************************************************************************)
(* Model of the remote directory synchronisation engine of workflow-bin:   *)
(* ConcurrentUploadTasks (push_single_file, push_path, push_str,           *)
(* push_str_seq, join), collect_files, sync_dir (src/src/opendal_fs.rs)    *)
(* and the upload part of deploy_oss that drives them (src/src/main.rs).   *)
(*                                                                         *)
(* Paths and keys are sequences of one-character strings, so that          *)
(* str::replace("\\", "/") is computed and not assumed.  An upload task is *)
(* a tokio task: it runs concurrently with the coordinating flow, and      *)
(* dropping its JoinHandle detaches it without stopping it.  Awaiting a    *)
(* JoinHandle yields the task's Result, or a JoinError when the task       *)
(* panicked.                                                               *)
(*                                                                         *)
(* Three further parts stand beside the upload flow, each with its own     *)
(* specification: the MimeGuessLayer on write and stat                     *)
(* (src/src/opendal_mime_guess.rs, SpecMime), the pipeline of main with    *)
(* its Pushover notifications and working directory (src/src/main.rs,      *)
(* SpecRun), and MemProbe (src/src/mem_probe.rs, SpecProbe, FairProbe).    *)
(***************************************************************************)
EXTENDS Naturals, Sequences, FiniteSets

VARIABLES
    fsFiles,   \* the regular files of the local file system (paths)
    store,     \* the remote namespace: a function key -> stored bytes
    storeBefore, \* the remote namespace when the current sync_dir was called
    tasks,     \* every upload task ever spawned, in spawn order
    handles,   \* ConcurrentUploadTasks.handles: indices into tasks
    pc,        \* position of the coordinating flow
    idx,       \* position of the loop the flow is in (push loop or join loop)
    dirIdx,    \* 0 in the single-file stage, k while mirroring sync.dirs[k]
    files,     \* sync_dir's local `files`
    results,   \* join's local `results`
    rmRes,     \* outcome of remove_all in the current sync_dir call
    lastPush,  \* what the most recent push call returned
    joinRet,   \* what the most recent join call returned
    sdRet,     \* what the most recent sync_dir call returned
    result,    \* what deploy_oss returned
    readLog,   \* the fs::read calls made so far, in order, with their outcome
    again,     \* 0, or the k for which sync_dir(sync.dirs[k]) is run a second time
    storeFirst, \* the remote namespace when the first of the two runs returned
    objs,      \* backend behind the MimeGuessLayer: path -> what the caller's
               \* OpWrite carried (given) and what the backend stored (stored)
    lastStat,  \* the most recent stat through the MimeGuessLayer: its path, the
               \* inner accessor's result and the layer's result
    cmd,       \* main: the parsed Commands value
    pushoverEnv, \* whether PUSHOVER_USER_KEY and PUSHOVER_APP_TOKEN are both set
    rpc,       \* position of main
    stepIdx,   \* the next step of main's pipeline
    stepLog,   \* the pipeline steps executed so far, with their outcome
    sends,     \* the Pushover requests issued so far, with their outcome
    mainRet,   \* what main returned
    cwd,       \* the working directory of the process (path components)
    cwdEntry,  \* the working directory at each entry of hugo_deploy so far
    mpc,       \* MemProbe: position of the thread that owns the MemProbe
    tpc,       \* MemProbe: position of the probe thread
    chan,      \* MemProbe: the messages queued in the mpsc channel
    max,       \* probe thread's local `max`
    sample,    \* probe thread's local `sample`
    thRet,     \* what the probe thread returned
    mpRet      \* what join_and_get_mb_sample got from handle.join()

engineVars == <<fsFiles, store, storeBefore, tasks, handles, pc, idx, dirIdx, files,
                results, rmRes, lastPush, joinRet, sdRet, result, readLog>>

twiceVars == <<again, storeFirst>>

mimeVars == <<objs, lastStat>>

\* the variables of the other parts of the program, as seen from the upload
\* flow, and from the MimeGuessLayer
runVars == <<cmd, pushoverEnv, rpc, stepIdx, stepLog, sends, mainRet, cwd, cwdEntry>>

probeVars == <<mpc, tpc, chan, max, sample, thRet, mpRet>>

sideVars == <<mimeVars, runVars, probeVars>>
notMimeVars == <<engineVars, twiceVars, runVars, probeVars>>
notRunVars == <<engineVars, twiceVars, mimeVars, probeVars>>
notProbeVars == <<engineVars, twiceVars, mimeVars, runVars>>

vars == <<engineVars, twiceVars, mimeVars, runVars, probeVars>>

(***************************************************************************)
(* Bounds of the model.                                                    *)
(***************************************************************************)
MaxFiles == 3   \* at most this many regular files in the local tree
MaxOld   == 2   \* at most this many objects in the remote namespace at start

(***************************************************************************)
(* Paths.                                                                  *)
(***************************************************************************)
Slash     == "/"
Backslash == "\\"
BadByte   == "?"   \* stands for a byte sequence that is not valid UTF-8

\* sync.files and sync.dirs of the configuration (OssSyncConfig)
SyncFiles == << <<"f">>, <<"g">> >>
SyncDirs  == << <<"d">>, <<"e">> >>

\* the regular files a local tree may hold below the configured directories;
\* on Unix a file name may contain a backslash or bytes that are not UTF-8
CandFiles ==
    { <<"d", "/", "a", "/", "b">>,
      <<"d", "/", "a", "\\", "b">>,
      <<"d", "/", "c">>,
      <<"d", "/", "?">>,
      <<"e", "/", "a">> }

\* the keys that may hold an object before the run
OldKeys == { <<"d", "/", "o">>, <<"d", "/", "c">>, <<"e", "/", "o">> }

StartsWith(s, p) ==
    /\ Len(p) <= Len(s)
    /\ \A i \in 1..Len(p) : s[i] = p[i]

\* Option<&str>
NoStr   == [some |-> FALSE]
Some(v) == [some |-> TRUE, v |-> v]

\* Path::to_str: None when the path is not valid UTF-8
ToStr(path) ==
    IF \E i \in 1..Len(path) : path[i] = BadByte THEN NoStr ELSE Some(path)

\* str::replace("\\", "/")
Replace(s) == [i \in 1..Len(s) |-> IF s[i] = Backslash THEN Slash ELSE s[i]]

\* the bytes fs::read returns for a local file: each file has its own content
FileBytes(path) == <<"bytes of">> \o path
OldBytes == <<"old bytes">>

\* WalkDir::new(dir) filtered by is_file(): the regular files below dir
WalkFiles(dir) == {f \in fsFiles : StartsWith(f, dir \o <<Slash>>)}

\* the orders in which a directory walk may yield a set of files
Orderings(S) ==
    {s \in [1..Cardinality(S) -> S] :
        \A i, j \in 1..Cardinality(S) : i # j => s[i] # s[j]}

(***************************************************************************)
(* Storage accessor (Operator).                                            *)
(***************************************************************************)
\* Operator::write(key, bytes) that succeeded: overwrite
StoreWrite(s, key, bytes) ==
    [k \in DOMAIN s \cup {key} |-> IF k = key THEN bytes ELSE s[k]]

\* Operator::remove_all(prefix) that succeeded
StoreKeepAll(s, prefix) == s
StoreRemoveAll(s, prefix) ==
    [k \in {x \in DOMAIN s : ~StartsWith(x, prefix)} |-> s[k]]

\* Result values: nothing returned yet, Ok(n), or an error with its cause
\* ("read", "path", "collect", "remove", "write", "join") and the position
\* (index of the element or of the handle) it comes from
None         == [kind |-> "none"]
Ok(n)        == [kind |-> "ok", n |-> n]
Err(why, at) == [kind |-> "err", why |-> why, at |-> at]

Terminal(t) == tasks[t].st # "running"

\* main is not being followed: the upload flow and the layer are looked at
\* on their own
RunIdle ==
    /\ cmd = "none"
    /\ pushoverEnv = FALSE
    /\ rpc = "idle"
    /\ stepIdx = 1
    /\ stepLog = <<>>
    /\ sends = <<>>
    /\ mainRet = None
    /\ cwd = <<>>
    /\ cwdEntry = <<>>

\* no MemProbe exists
ProbeIdle ==
    /\ mpc = "idle"
    /\ tpc = "unborn"
    /\ chan = 0
    /\ max = 0
    /\ sample = 0
    /\ thRet = None
    /\ mpRet = None

(***************************************************************************)
(* Initial state: deploy_oss has built the Operator and is about to create *)
(* the task set of the single files (main.rs line 446).                    *)
(***************************************************************************)
Init ==
    /\ fsFiles \in {S \in SUBSET CandFiles : Cardinality(S) <= MaxFiles}
    /\ \E olds \in {S \in SUBSET OldKeys : Cardinality(S) <= MaxOld} :
          /\ store = [k \in olds |-> OldBytes]
          /\ storeBefore = [k \in olds |-> OldBytes]
    /\ tasks = <<>>
    /\ handles = <<>>
    /\ pc = "push_seq"
    /\ idx = 1
    /\ dirIdx = 0
    /\ files = <<>>
    /\ results = <<>>
    /\ rmRes = "none"
    /\ lastPush = "none"
    /\ joinRet = None
    /\ sdRet = None
    /\ result = None
    /\ readLog = <<>>
    /\ again = 0
    /\ storeFirst = <<>>
    /\ objs = <<>>
    /\ lastStat = None
    /\ RunIdle
    /\ ProbeIdle

(***************************************************************************)
(* ConcurrentUploadTasks::push_single_file: read the local file, then      *)
(* spawn the upload task and keep its handle.  A read error returns before *)
(* anything is spawned.                                                    *)
(***************************************************************************)
push_single_file_spawn_anyway(src, target) ==
    \E readOk \in BOOLEAN :
        /\ readLog' = Append(readLog, [path |-> src, ok |-> readOk])
        /\ tasks' = Append(tasks, [src    |-> src,
                                   target |-> target,
                                   data   |-> IF readOk THEN FileBytes(src) ELSE <<>>,
                                   st     |-> "running",
                                   owner  |-> dirIdx])
        /\ handles' = Append(handles, Len(tasks) + 1)
        /\ lastPush' = IF readOk THEN "ok" ELSE "read_err"

push_single_file_await_write(src, target) ==
    \E readOk \in BOOLEAN :
        /\ readLog' = Append(readLog, [path |-> src, ok |-> readOk])
        /\ IF readOk
           THEN /\ \E o \in {"err", "panic"} :
                     tasks' = Append(tasks, [src    |-> src,
                                             target |-> target,
                                             data   |-> FileBytes(src),
                                             st     |-> o,
                                             owner  |-> dirIdx])
                /\ handles' = Append(handles, Len(tasks) + 1)
                /\ lastPush' = "ok"
           ELSE /\ UNCHANGED <<tasks, handles>>
                /\ lastPush' = "read_err"

push_single_file(src, target) ==
    \E readOk \in BOOLEAN :
        /\ readLog' = Append(readLog, [path |-> src, ok |-> readOk])
        /\ IF readOk
           THEN /\ tasks' = Append(tasks, [src    |-> src,
                                           target |-> target,
                                           data   |-> FileBytes(src),
                                           st     |-> "running",
                                           owner  |-> dirIdx])
                /\ handles' = Append(handles, Len(tasks) + 1)
                /\ lastPush' = "ok"
           ELSE /\ UNCHANGED <<tasks, handles>>
                /\ lastPush' = "read_err"

\* ConcurrentUploadTasks::push_path: the key is the path string with every
\* backslash replaced; a path that is not UTF-8 fails before the read
push_path(path) ==
    IF ToStr(path).some
    THEN push_single_file(path, Replace(ToStr(path).v))
    ELSE /\ lastPush' = "path_err"
         /\ UNCHANGED <<tasks, handles, readLog>>

\* ConcurrentUploadTasks::push_str: the key is the path itself
push_str(path) == push_single_file(path, path)

(***************************************************************************)
(* ConcurrentUploadTasks::push_str_seq as called by deploy_oss: one push   *)
(* per step; the first error returns from push_str_seq and, through `?`,   *)
(* from deploy_oss.  After the last element deploy_oss calls files.join(). *)
(***************************************************************************)
PushStrSeqSwallow ==
    /\ pc = "push_seq"
    /\ IF idx <= Len(SyncFiles)
       THEN /\ push_str(SyncFiles[idx])
            /\ idx' = idx + 1
            /\ UNCHANGED <<pc, result, results>>
       ELSE /\ pc' = "join"
            /\ idx' = 1
            /\ results' = <<>>
            /\ UNCHANGED <<tasks, handles, readLog, lastPush, result>>
    /\ UNCHANGED <<twiceVars, sideVars, fsFiles, storeBefore, store, dirIdx, files, rmRes, joinRet, sdRet>>

PushStrSeq ==
    /\ pc = "push_seq"
    /\ IF idx <= Len(SyncFiles)
       THEN /\ push_str(SyncFiles[idx])
            /\ IF lastPush' = "ok"
               THEN /\ idx' = idx + 1
                    /\ UNCHANGED <<pc, result>>
               ELSE /\ pc' = "done"
                    /\ result' = Err("read", idx)
                    /\ UNCHANGED idx
            /\ UNCHANGED results
       ELSE /\ pc' = "join"
            /\ idx' = 1
            /\ results' = <<>>
            /\ UNCHANGED <<tasks, handles, readLog, lastPush, result>>
    /\ UNCHANGED <<twiceVars, sideVars, fsFiles, storeBefore, store, dirIdx, files, rmRes, joinRet, sdRet>>

(***************************************************************************)
(* An upload task: op.write(&target, data).await.  It ends with Ok, with   *)
(* an opendal::Error, or by panicking; only Ok changes the namespace.      *)
(***************************************************************************)
TaskFinishRetry(t, outcome) ==
    /\ tasks[t].st \in {"running", "err"}
    /\ tasks' = [tasks EXCEPT ![t].st = outcome]
    /\ store' = IF outcome = "ok"
                THEN StoreWrite(store, tasks[t].target, tasks[t].data)
                ELSE store
    /\ UNCHANGED <<twiceVars, sideVars, fsFiles, storeBefore, handles, pc, idx, dirIdx,
                   files, results, rmRes, lastPush, joinRet, sdRet, result, readLog>>

TaskFinish(t, outcome) ==
    /\ tasks[t].st = "running"
    /\ tasks' = [tasks EXCEPT ![t].st = outcome]
    /\ store' = IF outcome = "ok"
                THEN StoreWrite(store, tasks[t].target, tasks[t].data)
                ELSE store
    /\ UNCHANGED <<twiceVars, sideVars, fsFiles, storeBefore, handles, pc, idx, dirIdx, files, results, rmRes,
                   lastPush, joinRet, sdRet, result, readLog>>

(***************************************************************************)
(* ConcurrentUploadTasks::join.                                            *)
(***************************************************************************)
\* the second loop of join: the first Err among the results, else Ok(tasks)
JoinResultAllOk(rs, n) == Ok(n)

JoinResultEmptyIsError(rs, n) ==
    IF n = 0 \/ \E i \in 1..Len(rs) : rs[i] = "err"
    THEN Err("write", 0)
    ELSE Ok(n)

JoinResult(rs, n) ==
    IF \E i \in 1..Len(rs) : rs[i] = "err"
    THEN Err("write", CHOOSE i \in 1..Len(rs) :
                         /\ rs[i] = "err"
                         /\ \A j \in 1..(i - 1) : rs[j] # "err")
    ELSE Ok(n)

\* join returns r to its caller: deploy_oss (single files) or sync_dir,
\* whose own result it then is (join is sync_dir's tail expression)
JoinReturn(r) ==
    /\ joinRet' = r
    /\ IF dirIdx = 0
       THEN pc' = "join_ret" /\ UNCHANGED sdRet
       ELSE pc' = "sd_ret" /\ sdRet' = r

\* the first loop of join, one handle per step: `h.await?` waits for the
\* task of the next handle and returns at once when it yields a JoinError
JoinAwaitTimeout ==
    /\ pc = "join"
    /\ idx <= Len(handles)
    /\ IF ~Terminal(handles[idx])
       THEN /\ JoinReturn(Err("timeout", idx))
            /\ UNCHANGED <<idx, results>>
       ELSE IF tasks[handles[idx]].st = "panic"
            THEN /\ JoinReturn(Err("join", idx))
                 /\ UNCHANGED <<idx, results>>
            ELSE /\ results' = Append(results, tasks[handles[idx]].st)
                 /\ idx' = idx + 1
                 /\ UNCHANGED <<pc, joinRet, sdRet>>
    /\ UNCHANGED <<twiceVars, sideVars, fsFiles, storeBefore, store, tasks, handles, dirIdx,
                   files, rmRes, lastPush, result, readLog>>

JoinAwaitFailFast ==
    /\ pc = "join"
    /\ idx <= Len(handles)
    /\ Terminal(handles[idx])
    /\ IF tasks[handles[idx]].st = "panic"
       THEN /\ JoinReturn(Err("join", idx))
            /\ UNCHANGED <<idx, results>>
       ELSE IF tasks[handles[idx]].st = "err"
            THEN /\ JoinReturn(Err("write", idx))
                 /\ UNCHANGED <<idx, results>>
            ELSE /\ results' = Append(results, tasks[handles[idx]].st)
                 /\ idx' = idx + 1
                 /\ UNCHANGED <<pc, joinRet, sdRet>>
    /\ UNCHANGED <<twiceVars, sideVars, fsFiles, storeBefore, store, tasks, handles, dirIdx, files, rmRes,
                   lastPush, result, readLog>>

JoinAwait ==
    /\ pc = "join"
    /\ idx <= Len(handles)
    /\ Terminal(handles[idx])
    /\ IF tasks[handles[idx]].st = "panic"
       THEN /\ JoinReturn(Err("join", idx))
            /\ UNCHANGED <<idx, results>>
       ELSE /\ results' = Append(results, tasks[handles[idx]].st)
            /\ idx' = idx + 1
            /\ UNCHANGED <<pc, joinRet, sdRet>>
    /\ UNCHANGED <<twiceVars, sideVars, fsFiles, storeBefore, store, tasks, handles, dirIdx, files, rmRes,
                   lastPush, result, readLog>>

JoinFinishRollback ==
    /\ pc = "join"
    /\ idx > Len(handles)
    /\ JoinReturn(JoinResult(results, Len(handles)))
    /\ store' = IF dirIdx >= 1 /\ JoinResult(results, Len(handles)).kind = "err"
                THEN StoreRemoveAll(store, SyncDirs[dirIdx])
                ELSE store
    /\ UNCHANGED <<twiceVars, sideVars, fsFiles, storeBefore, tasks, handles, idx, dirIdx,
                   files, results, rmRes, lastPush, result, readLog>>

\* every handle has been awaited: scan the results and return
JoinFinish ==
    /\ pc = "join"
    /\ idx > Len(handles)
    /\ JoinReturn(JoinResult(results, Len(handles)))
    /\ UNCHANGED <<twiceVars, sideVars, fsFiles, storeBefore, store, tasks, handles, idx, dirIdx, files, results,
                   rmRes, lastPush, result, readLog>>

(***************************************************************************)
(* deploy_oss after files.join(): `?`, then the loop over sync.dirs.       *)
(***************************************************************************)
DeployAfterJoin ==
    /\ pc = "join_ret"
    /\ IF joinRet.kind = "err"
       THEN /\ result' = joinRet
            /\ pc' = "done"
            /\ UNCHANGED <<dirIdx, storeBefore>>
       ELSE IF Len(SyncDirs) >= 1
            THEN /\ dirIdx' = 1
                 /\ pc' = "collect"
                 /\ storeBefore' = store
                 /\ UNCHANGED result
            ELSE /\ result' = Ok(0)
                 /\ pc' = "done"
                 /\ UNCHANGED <<dirIdx, storeBefore>>
    /\ UNCHANGED <<twiceVars, sideVars, fsFiles, store, tasks, handles, idx, files, results, rmRes,
                   lastPush, joinRet, sdRet, readLog>>

(***************************************************************************)
(* sync_dir(op, dir), dir = SyncDirs[dirIdx].                              *)
(***************************************************************************)
\* collect_files(dir).await?: the walk fails, or yields the regular files
\* below dir in an order the file system chooses
SyncDirCollectAfterWipe ==
    /\ pc = "collect"
    /\ \E ok \in BOOLEAN :
          IF ok
          THEN /\ \E fs \in Orderings(WalkFiles(SyncDirs[dirIdx])) : files' = fs
               /\ pc' = "remove"
               /\ UNCHANGED <<sdRet, store>>
          ELSE /\ store' = StoreRemoveAll(store, SyncDirs[dirIdx])
               /\ sdRet' = Err("collect", 0)
               /\ pc' = "sd_ret"
               /\ UNCHANGED files
    /\ UNCHANGED <<twiceVars, sideVars, fsFiles, storeBefore, tasks, handles, idx, dirIdx, results, rmRes,
                   lastPush, joinRet, result, readLog>>

SyncDirCollect ==
    /\ pc = "collect"
    /\ \E ok \in BOOLEAN :
          IF ok
          THEN /\ \E fs \in Orderings(WalkFiles(SyncDirs[dirIdx])) : files' = fs
               /\ pc' = "remove"
               /\ UNCHANGED sdRet
          ELSE /\ sdRet' = Err("collect", 0)
               /\ pc' = "sd_ret"
               /\ UNCHANGED files
    /\ UNCHANGED <<twiceVars, sideVars, fsFiles, storeBefore, store, tasks, handles, idx, dirIdx, results, rmRes,
                   lastPush, joinRet, result, readLog>>

\* op.remove_all(dir).await?, then ConcurrentUploadTasks::new
SyncDirRemoveUnchecked ==
    /\ pc = "remove"
    /\ \E ok \in BOOLEAN :
          /\ store' = IF ok THEN StoreRemoveAll(store, SyncDirs[dirIdx]) ELSE store
          /\ rmRes' = IF ok THEN "ok" ELSE "err"
          /\ handles' = <<>>
          /\ idx' = 1
          /\ pc' = "push"
          /\ UNCHANGED sdRet
    /\ UNCHANGED <<twiceVars, sideVars, fsFiles, storeBefore, tasks, dirIdx, files, results, lastPush, joinRet,
                   result, readLog>>

SyncDirRemove ==
    /\ pc = "remove"
    /\ \E ok \in BOOLEAN :
          IF ok
          THEN /\ store' = StoreRemoveAll(store, SyncDirs[dirIdx])
               /\ rmRes' = "ok"
               /\ handles' = <<>>
               /\ idx' = 1
               /\ pc' = "push"
               /\ UNCHANGED sdRet
          ELSE /\ rmRes' = "err"
               /\ sdRet' = Err("remove", 0)
               /\ pc' = "sd_ret"
               /\ UNCHANGED <<store, handles, idx>>
    /\ UNCHANGED <<twiceVars, sideVars, fsFiles, storeBefore, tasks, dirIdx, files, results, lastPush, joinRet,
                   result, readLog>>

\* the loop `for path in files { upload.push_path(path).await?; }`, one push
\* per step, and after the last file the call of upload.join()
SyncDirPush ==
    /\ pc = "push"
    /\ IF idx <= Len(files)
       THEN /\ push_path(files[idx])
            /\ IF lastPush' = "ok"
               THEN /\ idx' = idx + 1
                    /\ UNCHANGED <<pc, sdRet>>
               ELSE /\ pc' = "sd_ret"
                    /\ sdRet' = Err(IF lastPush' = "read_err" THEN "read" ELSE "path", idx)
                    /\ UNCHANGED idx
            /\ UNCHANGED results
       ELSE /\ pc' = "join"
            /\ idx' = 1
            /\ results' = <<>>
            /\ UNCHANGED <<tasks, handles, readLog, lastPush, sdRet>>
    /\ UNCHANGED <<twiceVars, sideVars, fsFiles, storeBefore, store, dirIdx, files, rmRes, joinRet, result>>

DeployNextIgnoreError ==
    /\ pc = "sd_ret"
    /\ IF dirIdx < Len(SyncDirs)
       THEN /\ dirIdx' = dirIdx + 1
            /\ pc' = "collect"
            /\ sdRet' = None
            /\ rmRes' = "none"
            /\ storeBefore' = store
            /\ UNCHANGED result
       ELSE /\ result' = IF sdRet.kind = "err" THEN sdRet ELSE Ok(0)
            /\ pc' = "done"
            /\ UNCHANGED <<dirIdx, sdRet, rmRes, storeBefore>>
    /\ UNCHANGED <<twiceVars, sideVars, fsFiles, store, tasks, handles, idx, files, results,
                   lastPush, joinRet, readLog>>

\* deploy_oss after sync_dir returned: `?`, then the next directory or Ok
DeployNext ==
    /\ pc = "sd_ret"
    /\ IF sdRet.kind = "err"
       THEN /\ result' = sdRet
            /\ pc' = "done"
            /\ UNCHANGED <<dirIdx, sdRet, rmRes, storeBefore>>
       ELSE IF dirIdx < Len(SyncDirs)
            THEN /\ dirIdx' = dirIdx + 1
                 /\ pc' = "collect"
                 /\ sdRet' = None
                 /\ rmRes' = "none"
                 /\ storeBefore' = store
                 /\ UNCHANGED result
            ELSE /\ result' = Ok(0)
                 /\ pc' = "done"
                 /\ UNCHANGED <<dirIdx, sdRet, rmRes, storeBefore>>
    /\ UNCHANGED <<twiceVars, sideVars, fsFiles, store, tasks, handles, idx, files, results,
                   lastPush, joinRet, readLog>>

(***************************************************************************)
(* Two successive calls of sync_dir on the same directory with an          *)
(* unchanged local tree: after the first call returned Ok the caller calls *)
(* sync_dir(op, dir) again.                                                *)
(***************************************************************************)
Remirror ==
    /\ pc = "sd_ret"
    /\ sdRet.kind = "ok"
    /\ again = 0
    /\ again' = dirIdx
    /\ storeFirst' = store
    /\ storeBefore' = store
    /\ pc' = "collect"
    /\ sdRet' = None
    /\ rmRes' = "none"
    /\ UNCHANGED <<fsFiles, store, tasks, handles, idx, dirIdx, files, results,
                   lastPush, joinRet, result, readLog>>
    /\ UNCHANGED sideVars

Next ==
    \/ PushStrSeq
    \/ \E t \in 1..Len(tasks) : \E o \in {"ok", "err", "panic"} : TaskFinish(t, o)
    \/ JoinAwait
    \/ JoinFinish
    \/ DeployAfterJoin
    \/ SyncDirCollect
    \/ SyncDirRemove
    \/ SyncDirPush
    \/ DeployNext

Spec == Init /\ [][Next]_vars

\* the flow under the scheduling the runtime guarantees: the coordinating
\* flow is resumed whenever the handle it awaits is ready; nothing bounds the
\* time a remote write takes, so an upload task may stay in flight for ever
JoinFairness == WF_vars(JoinAwait) /\ WF_vars(JoinFinish)

FairSpec == Spec /\ JoinFairness

\* the same flow when one directory is mirrored twice in succession
NextTwice == Next \/ Remirror

SpecTwice == Init /\ [][NextTwice]_vars

(***************************************************************************)
(* MimeGuessLayer (src/src/opendal_mime_guess.rs): writes through the      *)
(* layer to a backend that stores the content type the forwarded OpWrite   *)
(* carries.                                                                *)
(***************************************************************************)
HTML   == "text/html"
CUSTOM == "text/custom"

\* the paths written through the layer
MimePaths ==
    { <<"i", ".", "h", "t", "m", "l">>,
      <<"p", ".", "p", "n", "g">>,
      <<"d", ".", "x">>,
      <<"n">>,
      <<"s", ".", "c", "s", "s", "/", "n">>,
      <<".", "h", "t", "m", "l">> }

\* the content types a caller may set on its OpWrite, or none
GivenTypes == {NoStr, Some(CUSTOM), Some(HTML)}

Last(S) == CHOOSE i \in S : \A j \in S : j <= i

\* Path::file_name: the final segment of the path
FileName(path) ==
    LET slashes == {i \in 1..Len(path) : path[i] = Slash}
    IN  IF slashes = {} THEN path
        ELSE SubSeq(path, Last(slashes) + 1, Len(path))

\* Path::extension: what follows the last '.' of the file name; none when
\* the name has no '.', or only a leading one
Extension(path) ==
    LET name == FileName(path)
        dots == {i \in 1..Len(name) : name[i] = "."}
    IN  IF dots = {} \/ Last(dots) = 1 THEN NoStr
        ELSE Some(SubSeq(name, Last(dots) + 1, Len(name)))

\* the extension table of mime_guess (the entries the paths can hit)
MimeTable(ext) ==
    IF ext = <<"h", "t", "m", "l">> THEN Some(HTML)
    ELSE IF ext = <<"p", "n", "g">> THEN Some("image/png")
    ELSE IF ext = <<"c", "s", "s">> THEN Some("text/css")
    ELSE NoStr

\* mime_guess::from_path(path).first_raw()
mime_from_path(path) ==
    IF Extension(path).some THEN MimeTable(Extension(path).v) ELSE NoStr

OpWrite(ct) == [content_type |-> ct]

opwrite_keep(path, op) == op

opwrite_override(path, op) ==
    IF mime_from_path(path).some
    THEN [op EXCEPT !.content_type = mime_from_path(path)]
    ELSE op

opwrite_with_mime(path, op) ==
    IF ~op.content_type.some
    THEN IF mime_from_path(path).some
         THEN [op EXCEPT !.content_type = mime_from_path(path)]
         ELSE op
    ELSE op

\* MimeGuessAccessor::write: forward the write with the enriched OpWrite; the
\* backend stores the content type it receives
LayerWrite(path, ct) ==
    /\ objs' = [q \in DOMAIN objs \cup {path} |->
                  IF q = path
                  THEN [given  |-> ct,
                        stored |-> opwrite_with_mime(path, OpWrite(ct)).content_type]
                  ELSE objs[q]]
    /\ UNCHANGED lastStat
    /\ UNCHANGED notMimeVars

RpStat(ct) == [kind |-> "ok", content_type |-> ct]

rpstat_override(path, rp) ==
    IF mime_from_path(path).some
    THEN [rp EXCEPT !.content_type = mime_from_path(path)]
    ELSE rp

rpstat_with_mime(path, rp) ==
    IF ~rp.content_type.some
    THEN IF mime_from_path(path).some
         THEN [rp EXCEPT !.content_type = mime_from_path(path)]
         ELSE rp
    ELSE rp

\* what the inner accessor's stat can return for a path: an error (the path
\* does not exist, or the service failed), or the metadata of the object,
\* with the content type the backend keeps for it, or with none when the
\* backend keeps no content types (as Fs)
InnerStat(path) ==
    {Err("Unexpected", path)}
    \cup (IF path \in DOMAIN objs
          THEN {RpStat(objs[path].stored), RpStat(NoStr)}
          ELSE {Err("NotFound", path)})

\* MimeGuessAccessor::stat: the inner stat, then map over an Ok result
LayerStat(path) ==
    /\ \E inner \in InnerStat(path) :
          lastStat' = [path  |-> path,
                       inner |-> inner,
                       out   |-> IF inner.kind = "ok"
                                 THEN rpstat_with_mime(path, inner)
                                 ELSE inner]
    /\ UNCHANGED objs
    /\ UNCHANGED notMimeVars

\* no upload flow runs beside the layer
InitMime ==
    /\ objs = <<>>
    /\ lastStat = None
    /\ fsFiles = {}
    /\ store = <<>>
    /\ storeBefore = <<>>
    /\ tasks = <<>>
    /\ handles = <<>>
    /\ pc = "idle"
    /\ idx = 1
    /\ dirIdx = 0
    /\ files = <<>>
    /\ results = <<>>
    /\ rmRes = "none"
    /\ lastPush = "none"
    /\ joinRet = None
    /\ sdRet = None
    /\ result = None
    /\ readLog = <<>>
    /\ again = 0
    /\ storeFirst = <<>>
    /\ RunIdle
    /\ ProbeIdle

NextMime ==
    \/ \E path \in MimePaths : \E ct \in GivenTypes : LayerWrite(path, ct)
    \/ \E path \in MimePaths : LayerStat(path)

SpecMime == InitMime /\ [][NextMime]_vars


(***************************************************************************)
(* main (src/src/main.rs): the pipeline of one invocation.  Every fallible *)
(* call of main, hugo_deploy and deploy_oss is one step; an error of a     *)
(* step inside hugo_deploy or deploy_oss is passed up by `?` to the        *)
(* alert_err that wraps the call in main.                                  *)
(***************************************************************************)
Commands == {"start", "upgrade-hugo", "run"}

Step(variant, name) == [variant |-> variant, name |-> name]

DeployOssSteps(v) ==
    << Step(v, "set_current_dir"), Step(v, "env_var_bucket"),
       Step(v, "env_var_endpoint"), Step(v, "Operator::new"),
       Step(v, "push_str_seq"), Step(v, "join") >>
    \o [k \in 1..Len(SyncDirs) |-> Step(v, "sync_dir")]
    \o << Step(v, "set_current_dir_back") >>

\* deploy_github: `git push` is inside `if <git commit>.success()`
DeployGithubSteps(v) ==
    << Step(v, "git clone"), Step(v, "set_current_dir(repo)"),
       Step(v, "git config user.email"), Step(v, "git config user.name") >>
    \o (IF v = "draft" THEN << Step(v, "git checkout draft") >> ELSE << >>)
    \o << Step(v, "remove_public (repo)"), Step(v, "copy_dir"),
          Step(v, "git add"), Step(v, "git commit"), Step(v, "git push"),
          Step(v, "set_current_dir(..)"), Step(v, "remove_dir_all(repo)") >>

HugoDeploySteps(v) ==
    << Step(v, "remove_public") >>
    \o (IF v = "draft" THEN << Step(v, "env_var_base_url") >> ELSE << >>)
    \o << Step(v, "hugo") >>
    \o DeployGithubSteps(v)
    \o DeployOssSteps(v)

\* the directories workflow-bin can be started in: the root, or below it
StartDirs == { << >>, << "w" >> }

\* the parent directory; the parent of the root is the root
Parent(dir) == IF dir = << >> THEN << >> ELSE SubSeq(dir, 1, Len(dir) - 1)

CwdAfterNoReturn(step, dir) ==
    IF step.name = "set_current_dir(repo)" THEN Append(dir, "repo")
    ELSE IF step.name = "set_current_dir" THEN Append(dir, "public")
    ELSE dir

\* the working directory after a successful step: set_current_dir(repo),
\* set_current_dir("public") and set_current_dir("..") change it
CwdAfter(step, dir) ==
    IF step.name = "set_current_dir(repo)" THEN Append(dir, "repo")
    ELSE IF step.name = "set_current_dir" THEN Append(dir, "public")
    ELSE IF step.name \in {"set_current_dir(..)", "set_current_dir_back"}
         THEN Parent(dir)
    ELSE dir

MainStepsProdFirst(c) ==
    << Step("main", "WorkflowConfig::read"), Step("main", "fetch_hugo") >>
    \o (IF c = "run"
        THEN << Step("main", "DEPLOY_GITHUB_ACCESS_TOKEN"),
                Step("main", "DEPLOY_GITHUB_USER_EMAIL"),
                Step("main", "DEPLOY_GITHUB_USER_NAME"),
                Step("main", "OSS_ACCESS_KEY_ID"),
                Step("main", "OSS_ACCESS_KEY_SECRET") >>
             \o HugoDeploySteps("prod") \o HugoDeploySteps("draft")
        ELSE << >>)

MainSteps(c) ==
    << Step("main", "WorkflowConfig::read"), Step("main", "fetch_hugo") >>
    \o (IF c = "run"
        THEN << Step("main", "DEPLOY_GITHUB_ACCESS_TOKEN"),
                Step("main", "DEPLOY_GITHUB_USER_EMAIL"),
                Step("main", "DEPLOY_GITHUB_USER_NAME"),
                Step("main", "OSS_ACCESS_KEY_ID"),
                Step("main", "OSS_ACCESS_KEY_SECRET") >>
             \o HugoDeploySteps("draft") \o HugoDeploySteps("prod")
        ELSE << >>)

InitRun ==
    /\ cmd \in Commands
    /\ pushoverEnv \in BOOLEAN
    /\ rpc = "main"
    /\ stepIdx = 1
    /\ stepLog = <<>>
    /\ sends = <<>>
    /\ mainRet = None
    /\ cwd \in StartDirs
    /\ cwdEntry = <<>>
    /\ fsFiles = {}
    /\ store = <<>>
    /\ storeBefore = <<>>
    /\ tasks = <<>>
    /\ handles = <<>>
    /\ pc = "idle"
    /\ idx = 1
    /\ dirIdx = 0
    /\ files = <<>>
    /\ results = <<>>
    /\ rmRes = "none"
    /\ lastPush = "none"
    /\ joinRet = None
    /\ sdRet = None
    /\ result = None
    /\ readLog = <<>>
    /\ again = 0
    /\ storeFirst = <<>>
    /\ objs = <<>>
    /\ lastStat = None
    /\ ProbeIdle

\* Pushover::new()?.send(message, sound).await as main and alert_err use it:
\* new fails when a credential is not in the environment, and then nothing
\* is requested; otherwise the request is issued and may fail.  `onOk` is
\* what the caller returns after a delivered message.
PushoverSend(message, onOk) ==
    IF ~pushoverEnv
    THEN /\ mainRet' = Err("env_var", message)
         /\ sends' = sends
    ELSE \E delivered \in BOOLEAN :
            /\ sends' = Append(sends, [message |-> message, ok |-> delivered])
            /\ mainRet' = IF delivered THEN onOk ELSE Err("pushover", message)

alert_err_silent(self, trigger) ==
    /\ mainRet' = self
    /\ sends' = sends

\* AlertErr::alert_err on an Err value, followed by the `?` of main
alert_err(self, trigger) ==
    IF trigger
    THEN PushoverSend("failure", self)
    ELSE /\ mainRet' = self
         /\ sends' = sends

\* `Start`: only the start message
MainStart ==
    /\ rpc = "main"
    /\ cmd = "start"
    /\ PushoverSend("start", Ok(0))
    /\ rpc' = "exit"
    /\ UNCHANGED <<cmd, pushoverEnv, stepIdx, stepLog, cwd, cwdEntry>>
    /\ UNCHANGED notRunVars

\* the other commands enter the pipeline
MainEnter ==
    /\ rpc = "main"
    /\ cmd # "start"
    /\ rpc' = "step"
    /\ UNCHANGED <<cmd, pushoverEnv, stepIdx, stepLog, sends, mainRet, cwd, cwdEntry>>
    /\ UNCHANGED notRunVars

RunStepAlwaysAlert ==
    /\ rpc = "step"
    /\ stepIdx <= Len(MainSteps(cmd))
    /\ cwdEntry' = IF MainSteps(cmd)[stepIdx].name = "remove_public"
                   THEN Append(cwdEntry, cwd)
                   ELSE cwdEntry
    /\ \E ok \in BOOLEAN :
          /\ stepLog' = Append(stepLog, [step |-> MainSteps(cmd)[stepIdx], ok |-> ok])
          /\ IF ok
             THEN /\ \E skip \in IF MainSteps(cmd)[stepIdx].name = "git commit"
                                  THEN {0, 1} ELSE {0} :
                        stepIdx' = stepIdx + 1 + skip
                  /\ cwd' = CwdAfter(MainSteps(cmd)[stepIdx], cwd)
                  /\ UNCHANGED <<rpc, sends, mainRet>>
             ELSE /\ alert_err(Err("step", Len(stepLog) + 1), TRUE)
                  /\ rpc' = "exit"
                  /\ UNCHANGED <<stepIdx, cwd>>
    /\ UNCHANGED <<cmd, pushoverEnv>>
    /\ UNCHANGED notRunVars

\* one step of the pipeline: Ok goes on to the next step, Err goes through
\* alert_err(cmd.is_run()) and leaves main.  `git commit` that ran but did
\* not succeed (nothing to commit) is not an error: the push is left out.
RunStep ==
    /\ rpc = "step"
    /\ stepIdx <= Len(MainSteps(cmd))
    /\ cwdEntry' = IF MainSteps(cmd)[stepIdx].name = "remove_public"
                   THEN Append(cwdEntry, cwd)
                   ELSE cwdEntry
    /\ \E ok \in BOOLEAN :
          /\ stepLog' = Append(stepLog, [step |-> MainSteps(cmd)[stepIdx], ok |-> ok])
          /\ IF ok
             THEN /\ \E skip \in IF MainSteps(cmd)[stepIdx].name = "git commit"
                                  THEN {0, 1} ELSE {0} :
                        stepIdx' = stepIdx + 1 + skip
                  /\ cwd' = CwdAfter(MainSteps(cmd)[stepIdx], cwd)
                  /\ UNCHANGED <<rpc, sends, mainRet>>
             ELSE /\ alert_err(Err("step", Len(stepLog) + 1), cmd = "run")
                  /\ rpc' = "exit"
                  /\ UNCHANGED <<stepIdx, cwd>>
    /\ UNCHANGED <<cmd, pushoverEnv>>
    /\ UNCHANGED notRunVars

\* after the last step: `run` sends the success message, `upgrade-hugo`
\* returns Ok(())
MainFinish ==
    /\ rpc = "step"
    /\ stepIdx > Len(MainSteps(cmd))
    /\ IF cmd = "run"
       THEN PushoverSend("success", Ok(0))
       ELSE /\ mainRet' = Ok(0)
            /\ sends' = sends
    /\ rpc' = "exit"
    /\ UNCHANGED <<cmd, pushoverEnv, stepIdx, stepLog, cwd, cwdEntry>>
    /\ UNCHANGED notRunVars

NextRun == MainStart \/ MainEnter \/ RunStep \/ MainFinish

SpecRun == InitRun /\ [][NextRun]_vars


(***************************************************************************)
(* MemProbe (src/src/mem_probe.rs): a thread that samples the memory of    *)
(* the process in a loop until it finds a message in an mpsc channel, and  *)
(* the owner that sends the message and joins the thread.  The channel is  *)
(* unbounded: send queues the message and returns; try_recv takes a queued *)
(* message or returns Err at once.  The Sender lives until                 *)
(* join_and_get_mb_sample returns.                                         *)
(***************************************************************************)
MaxSample == 5

\* the values Process::memory() can report
MemReadings == {1, 2, 3}

InitProbe ==
    /\ mpc = "new"
    /\ tpc = "unborn"
    /\ chan = 0
    /\ max = 0
    /\ sample = 0
    /\ thRet = None
    /\ mpRet = None
    /\ RunIdle
    /\ fsFiles = {}
    /\ store = <<>>
    /\ storeBefore = <<>>
    /\ tasks = <<>>
    /\ handles = <<>>
    /\ pc = "idle"
    /\ idx = 1
    /\ dirIdx = 0
    /\ files = <<>>
    /\ results = <<>>
    /\ rmRes = "none"
    /\ lastPush = "none"
    /\ joinRet = None
    /\ sdRet = None
    /\ result = None
    /\ readLog = <<>>
    /\ again = 0
    /\ storeFirst = <<>>
    /\ objs = <<>>
    /\ lastStat = None

\* MemProbe::new: create the channel and spawn the probe thread
MemProbeNew ==
    /\ mpc = "new"
    /\ mpc' = "owned"
    /\ tpc' = "loop"
    /\ UNCHANGED <<chan, max, sample, thRet, mpRet>>
    /\ UNCHANGED notProbeVars

\* the owner calls join_and_get_mb_sample at a time of its choice
MemProbeShutdown ==
    /\ mpc = "owned"
    /\ mpc' = "send"
    /\ UNCHANGED <<tpc, chan, max, sample, thRet, mpRet>>
    /\ UNCHANGED notProbeVars

SignalSendLossy ==
    /\ mpc = "send"
    /\ chan' = IF tpc = "try_recv" THEN chan + 1 ELSE chan
    /\ mpc' = "join"
    /\ UNCHANGED <<tpc, max, sample, thRet, mpRet>>
    /\ UNCHANGED notProbeVars

\* self.signal.send(()).unwrap()
SignalSend ==
    /\ mpc = "send"
    /\ chan' = chan + 1
    /\ mpc' = "join"
    /\ UNCHANGED <<tpc, max, sample, thRet, mpRet>>
    /\ UNCHANGED notProbeVars

\* self.handle.join().unwrap(): returns when the thread has returned
HandleJoin ==
    /\ mpc = "join"
    /\ tpc = "exited"
    /\ mpRet' = thRet
    /\ mpc' = "returned"
    /\ UNCHANGED <<tpc, chan, max, sample, thRet>>
    /\ UNCHANGED notProbeVars

\* the loop body up to the try_recv: count the sample (the count stops
\* growing at MaxSample), refresh, read the memory and keep the maximum
ProbeSample ==
    /\ tpc = "loop"
    /\ sample' = IF sample < MaxSample THEN sample + 1 ELSE sample
    /\ \E this \in MemReadings : max' = IF this > max THEN this ELSE max
    /\ tpc' = "try_recv"
    /\ UNCHANGED <<mpc, chan, thRet, mpRet>>
    /\ UNCHANGED notProbeVars

\* if recv.try_recv().is_ok() { return (max, sample); }
ProbeTryRecv ==
    /\ tpc = "try_recv"
    /\ IF chan > 0
       THEN /\ chan' = chan - 1
            /\ thRet' = [max |-> max, sample |-> sample]
            /\ tpc' = "exited"
       ELSE /\ tpc' = "sleep"
            /\ UNCHANGED <<chan, thRet>>
    /\ UNCHANGED <<mpc, max, sample, mpRet>>
    /\ UNCHANGED notProbeVars

\* std::thread::sleep(1 ns), then the next iteration
ProbeSleep ==
    /\ tpc = "sleep"
    /\ tpc' = "loop"
    /\ UNCHANGED <<mpc, chan, max, sample, thRet, mpRet>>
    /\ UNCHANGED notProbeVars

ProbeThread == ProbeSample \/ ProbeTryRecv \/ ProbeSleep

NextProbe ==
    \/ MemProbeNew
    \/ MemProbeShutdown
    \/ SignalSend
    \/ HandleJoin
    \/ ProbeSample
    \/ ProbeTryRecv
    \/ ProbeSleep

SpecProbe == InitProbe /\ [][NextProbe]_vars

\* both threads are scheduled: a thread that can take a step eventually
\* takes one.  When the owner calls join_and_get_mb_sample is up to it.
FairProbe ==
    /\ SpecProbe
    /\ WF_vars(ProbeThread)
    /\ WF_vars(SignalSend)
    /\ WF_vars(HandleJoin)

(***************************************************************************)
(* Properties.                                                             *)
(***************************************************************************)
\* the directory being mirrored and the objects and tasks that belong to it
CurDir == SyncDirs[dirIdx]
KeysUnder(s, prefix) == {k \in DOMAIN s : StartsWith(k, prefix)}
SetTasks == {t \in 1..Len(tasks) : tasks[t].owner = dirIdx}
Failed(t) == tasks[t].st \in {"err", "panic"}

\* join has just returned to its caller (deploy_oss, or sync_dir whose result
\* it is)
JoinReturned ==
    \/ pc = "join_ret"
    \/ pc = "sd_ret" /\ sdRet.kind = "ok"
    \/ pc = "sd_ret" /\ sdRet.kind = "err" /\ sdRet.why \in {"write", "join"}

SyncDirReturned == pc = "sd_ret"

\* C1: when join returns, with success or with an error, every upload task
\* scheduled by push on the set has reached a terminal state.
C1_JoinIsBarrier ==
    JoinReturned => \A i \in 1..Len(handles) : Terminal(handles[i])

\* C2: when one or more scheduled uploads failed, the error join returns is
\* the failure of the failed task with the smallest submission index.
C2_FirstFailureBySubmission ==
    JoinReturned /\ (\E i \in 1..Len(handles) : Failed(handles[i])) =>
        /\ joinRet.kind = "err"
        /\ Failed(handles[joinRet.at])
        /\ \A i \in 1..(joinRet.at - 1) : ~Failed(handles[i])

\* C3: join returns success only if every scheduled upload succeeded, and
\* then the returned integer is the number of tasks scheduled on the set.
C3_OkOnlyIfAllOk ==
    JoinReturned /\ joinRet.kind = "ok" =>
        /\ \A i \in 1..Len(handles) : tasks[handles[i]].st = "ok"
        /\ \A t \in SetTasks : tasks[t].st = "ok"
        /\ joinRet.n = Cardinality(SetTasks)

C3_Witness ==
    /\ JoinReturned
    /\ joinRet.kind = "ok"
    /\ joinRet.n >= 2

\* C4: after sync_dir returns success the remote prefix holds exactly one
\* object per local file of the tree, under the file's path with backslashes
\* replaced by '/', holding the file's bytes.
C4_MirrorComplete ==
    SyncDirReturned /\ sdRet.kind = "ok" =>
        /\ Cardinality(KeysUnder(store, CurDir)) = Cardinality(WalkFiles(CurDir))
        /\ \A f \in WalkFiles(CurDir) :
              /\ Replace(f) \in DOMAIN store
              /\ store[Replace(f)] = FileBytes(f)

\* C5: after sync_dir returns success every object under the prefix is the
\* object of a local file of the tree; nothing else that was there before
\* the call remains.
C5_OnlyLocalObjectsRemain ==
    SyncDirReturned /\ sdRet.kind = "ok" =>
        \A k \in KeysUnder(store, CurDir) :
            \E f \in WalkFiles(CurDir) :
                /\ k = Replace(f)
                /\ store[k] = FileBytes(f)

C5_Witness ==
    /\ SyncDirReturned
    /\ sdRet.kind = "ok"
    /\ Len(files) >= 1
    /\ \E k \in KeysUnder(storeBefore, CurDir) : k \notin DOMAIN store
    /\ \E k \in KeysUnder(storeBefore, CurDir) :
          k \in DOMAIN store /\ store[k] # storeBefore[k]

\* C6: sync_dir issues a write only after remove_all returned success, and
\* when remove_all fails sync_dir returns that error having issued no write.
C6_WipeBeforeWrite ==
    dirIdx >= 1 =>
        /\ SetTasks # {} => rmRes = "ok"
        /\ rmRes = "err" =>
              /\ SyncDirReturned \/ pc = "done"
              /\ sdRet = Err("remove", 0)
              /\ SetTasks = {}

C6_Witness ==
    /\ dirIdx >= 1
    /\ rmRes = "err"
    /\ SyncDirReturned
    /\ WalkFiles(CurDir) # {}

\* C7 as stated: when sync_dir returns an error, whatever its cause, no
\* upload it scheduled is still in flight.
C7_NoUploadInFlightOnAnyError ==
    SyncDirReturned /\ sdRet.kind = "err" =>
        \A t \in SetTasks : Terminal(t)

\* C7 as amended: when sync_dir returns a remote write failure, no upload
\* it scheduled is still in flight.
C7_NoUploadInFlightOnWriteError ==
    SyncDirReturned /\ sdRet.kind = "err" /\ sdRet.why = "write" =>
        \A t \in SetTasks : Terminal(t)

C7_Witness ==
    /\ SyncDirReturned
    /\ sdRet.kind = "err"
    /\ sdRet.why = "write"
    /\ sdRet.at < Len(handles)
    /\ Cardinality(SetTasks) >= 2

\* C8: within one mirror operation no two distinct local files are uploaded
\* to the same remote key.
C8_KeysInjective ==
    \A t, u \in 1..Len(tasks) :
        /\ tasks[t].owner >= 1
        /\ tasks[t].owner = tasks[u].owner
        /\ tasks[t].src # tasks[u].src
        => tasks[t].target # tasks[u].target

\* C9: a push whose read fails returns the read error itself, adds no task,
\* issues no write, and leaves the tasks already scheduled unchanged; join
\* never reports a read error.
ReadFailedStep ==
    /\ Len(readLog') = Len(readLog) + 1
    /\ ~readLog'[Len(readLog')].ok

C9_ReadFailureIsLocal ==
    [][/\ ReadFailedStep =>
            /\ lastPush' = "read_err"
            /\ tasks' = tasks
            /\ handles' = handles
            /\ store' = store
            /\ joinRet' = joinRet
       /\ joinRet'.kind = "err" => joinRet'.why \in {"write", "join"}]_vars

C9_Witness ==
    /\ lastPush = "read_err"
    /\ ~readLog[Len(readLog)].ok
    /\ Len(handles) >= 1
    /\ \E i \in 1..Len(handles) : ~Terminal(handles[i])

\* C10: when the read of the i-th element of a submission (push_str_seq, or
\* the push loop of sync_dir) fails, the submission returns that read error
\* at once, and no element at position i or later is read again or written.
Submitted == IF dirIdx = 0 THEN SyncFiles ELSE files

C10_SubmissionFailsFast ==
    \A j \in 1..Len(readLog) :
        ~readLog[j].ok =>
            /\ j = Len(readLog)
            /\ idx <= Len(Submitted)
            /\ Submitted[idx] = readLog[j].path
            /\ IF dirIdx = 0
               THEN pc = "done" /\ result = Err("read", idx)
               ELSE pc \in {"sd_ret", "done"} /\ sdRet = Err("read", idx)
            /\ \A i \in idx..Len(Submitted) :
                  /\ \A t \in 1..Len(tasks) : tasks[t].src # Submitted[i]
                  /\ \A m \in 1..(j - 1) : readLog[m].path # Submitted[i]

C10_Witness ==
    /\ Len(readLog) >= 1
    /\ ~readLog[Len(readLog)].ok
    /\ idx < Len(Submitted)

\* C11: when collecting the local files fails, sync_dir returns that error
\* without having called remove_all and without having issued a write; the
\* remote namespace is as it was when sync_dir was called.
C11_EnumerationFailureAbortsFirst ==
    SyncDirReturned /\ sdRet.kind = "err" /\ sdRet.why = "collect" =>
        /\ rmRes = "none"
        /\ SetTasks = {}
        /\ store = storeBefore

C11_Witness ==
    /\ SyncDirReturned
    /\ sdRet = Err("collect", 0)
    /\ KeysUnder(store, CurDir) # {}
    /\ WalkFiles(CurDir) # {}

\* C12: mirroring an empty local directory (enumeration and remove_all
\* having succeeded) returns Ok(0), issues remove_all but no write, and
\* leaves the remote prefix empty whatever it held before.
C12_EmptyDirectory ==
    SyncDirReturned /\ WalkFiles(CurDir) = {} =>
        /\ sdRet.kind = "err" => sdRet.why \in {"collect", "remove"}
        /\ sdRet.kind = "ok" =>
              /\ sdRet = Ok(0)
              /\ rmRes = "ok"
              /\ SetTasks = {}
              /\ KeysUnder(store, CurDir) = {}
        /\ rmRes = "ok" => sdRet.kind = "ok"

C12_Witness ==
    /\ SyncDirReturned
    /\ WalkFiles(CurDir) = {}
    /\ sdRet = Ok(0)
    /\ KeysUnder(storeBefore, CurDir) # {}

\* C13: for an unchanged local tree and all uploads succeeding, a second
\* sync_dir run right after the first leaves the remote namespace as the
\* first run left it (same keys, same bytes per key).
C13_RemirrorIdempotent ==
    SyncDirReturned /\ again = dirIdx /\ sdRet.kind = "ok" => store = storeFirst

\* C14: a write without explicit content type stores the resolver's media
\* type when the path's extension is in the table (text/html for .html) and
\* stores no content type when the extension is unknown or absent.
ExpectedGuess(path) ==
    IF path = <<"i", ".", "h", "t", "m", "l">> THEN Some("text/html")
    ELSE IF path = <<"p", ".", "p", "n", "g">> THEN Some("image/png")
    ELSE NoStr

C14_ContentTypeFallback ==
    \A path \in DOMAIN objs :
        ~objs[path].given.some => objs[path].stored = ExpectedGuess(path)

C14_Witness ==
    /\ <<"i", ".", "h", "t", "m", "l">> \in DOMAIN objs
    /\ <<"d", ".", "x">> \in DOMAIN objs
    /\ objs[<<"i", ".", "h", "t", "m", "l">>] = [given |-> NoStr, stored |-> Some("text/html")]
    /\ objs[<<"d", ".", "x">>] = [given |-> NoStr, stored |-> NoStr]

\* C15: a write with an explicit content type is forwarded with exactly that
\* content type, also when the path's extension maps to another media type.
C15_ExplicitTypeKept ==
    \A path \in DOMAIN objs :
        objs[path].given.some => objs[path].stored = objs[path].given

C15_Witness ==
    /\ <<"i", ".", "h", "t", "m", "l">> \in DOMAIN objs
    /\ objs[<<"i", ".", "h", "t", "m", "l">>] =
          [given |-> Some("text/custom"), stored |-> Some("text/custom")]

\* C16: when sync_dir fails because an upload failed, every object whose
\* upload succeeded remains written and the objects present before the call
\* stay deleted; nothing is deleted or restored after the failure.
UploadedTo(k) ==
    {t \in SetTasks : tasks[t].st = "ok" /\ tasks[t].target = k}

C16_NoRollback ==
    /\ pc \in {"sd_ret", "done"}
    /\ dirIdx >= 1
    /\ sdRet.kind = "err"
    /\ sdRet.why \in {"write", "join"}
    => /\ \A t \in SetTasks :
            tasks[t].st = "ok" =>
                /\ tasks[t].target \in DOMAIN store
                /\ \E u \in UploadedTo(tasks[t].target) :
                      store[tasks[t].target] = tasks[u].data
       /\ \A k \in KeysUnder(storeBefore, CurDir) :
            k \in DOMAIN store =>
                \E u \in UploadedTo(k) : store[k] = tasks[u].data

C16_Witness ==
    /\ pc = "done"
    /\ dirIdx >= 1
    /\ sdRet.kind = "err"
    /\ sdRet.why = "write"
    /\ \E t \in SetTasks : tasks[t].st = "ok"
    /\ \E k \in KeysUnder(storeBefore, CurDir) : k \notin DOMAIN store

\* C18: push does not wait for a remote write: a push can be made whatever
\* the progress of the earlier writes, it leaves every earlier task as it
\* is, and it returns with the new write still in flight, so that all the
\* writes of k pushes can be in flight at once.
Pushing ==
    \/ pc = "push_seq" /\ idx <= Len(SyncFiles)
    \/ pc = "push" /\ idx <= Len(files)

C18_PushDoesNotWait ==
    [][/\ Pushing => ENABLED (PushStrSeq \/ SyncDirPush)
       /\ Len(tasks') = Len(tasks) + 1 =>
            /\ tasks'[Len(tasks')].st = "running"
            /\ \A t \in 1..Len(tasks) : tasks'[t] = tasks[t]
            /\ store' = store]_vars

C18_Witness ==
    /\ pc = "join"
    /\ Len(handles) = 3
    /\ \A i \in 1..Len(handles) : ~Terminal(handles[i])

\* C19: every push that returned success has exactly one upload task, and
\* the task issues its write once: it leaves the running state once, a task
\* that ended (with success or failure) is never run again, and the
\* namespace is written only by a task that is ending with success.
ReadsOk == {j \in 1..Len(readLog) : readLog[j].ok}

C19_AttemptedOnce ==
    [][/\ Len(tasks') = Cardinality({j \in 1..Len(readLog') : readLog'[j].ok})
       /\ Len(tasks') >= Len(tasks)
       /\ \A t \in 1..Len(tasks) :
            /\ Terminal(t) => tasks'[t] = tasks[t]
            /\ tasks'[t].target = tasks[t].target
            /\ tasks'[t].data = tasks[t].data
       /\ (store' # store /\ pc' = pc) =>
            \E t \in 1..Len(tasks) :
                /\ tasks[t].st = "running"
                /\ tasks'[t].st = "ok"
                /\ store' = StoreWrite(store, tasks[t].target, tasks[t].data)]_vars

C19_Witness ==
    /\ pc = "done"
    /\ Len(tasks) >= 2
    /\ Len(tasks) = Cardinality(ReadsOk)
    /\ \E t \in 1..Len(tasks) : tasks[t].st = "err"
    /\ \A t \in 1..Len(tasks) : Terminal(t)

\* C20: join has no timeout: if join never returns then some upload of the
\* set stays in flight for ever (so when every upload ends, join returns),
\* and join does not return while one upload of the set is in flight and
\* all the others have succeeded.
InFlight == \E i \in 1..Len(handles) : ~Terminal(handles[i])

C20_JoinHasNoTimeout ==
    /\ <>[](pc = "join") => <>[](pc = "join" /\ InFlight)
    /\ [](JoinReturned =>
            ~\E i \in 1..Len(handles) :
                /\ ~Terminal(handles[i])
                /\ \A j \in 1..Len(handles) :
                      j # i => tasks[handles[j]].st = "ok")

C20_Witness ==
    /\ pc = "join"
    /\ Len(handles) >= 2
    /\ idx = Len(handles)
    /\ ~Terminal(handles[idx])
    /\ \A j \in 1..(idx - 1) : tasks[handles[j]].st = "ok"

FailedStep == \E i \in 1..Len(stepLog) : ~stepLog[i].ok

Requested(message) == \E i \in 1..Len(sends) : sends[i].message = message

Sent(message) ==
    \E i \in 1..Len(sends) : sends[i].message = message /\ sends[i].ok

\* no step was executed after a step that returned an error
NoLaterStep == \A i \in 1..Len(stepLog) : ~stepLog[i].ok => i = Len(stepLog)

\* C17 as stated: under `run`, once a step returned an error a failure
\* notification is sent, no later step is executed and the success
\* notification is never sent.
C17_StepErrorIsReported ==
    (cmd = "run" /\ FailedStep) =>
        /\ rpc = "exit" => Sent("failure")
        /\ NoLaterStep
        /\ ~Requested("success")

\* C17 amended: under `run`, once a step returned an error main has returned
\* an error, no later step is executed and the success notification is never
\* requested; the failure notification is requested exactly when both
\* Pushover credentials are in the environment, once, and when it is not
\* delivered main returns the notification's error in place of the step's.
C17_StepErrorIsFatal ==
    (cmd = "run" /\ FailedStep) =>
        /\ rpc = "exit"
        /\ mainRet.kind = "err"
        /\ NoLaterStep
        /\ ~Requested("success")
        /\ Requested("failure") <=> pushoverEnv
        /\ Len(sends) <= 1
        /\ IF Sent("failure")
           THEN mainRet = Err("step", Len(stepLog))
           ELSE mainRet.why \in {"env_var", "pushover"}

C17_Witness ==
    /\ cmd = "run"
    /\ rpc = "exit"
    /\ Len(stepLog) > 0
    /\ stepLog[Len(stepLog)] = [step |-> Step("draft", "sync_dir"), ok |-> FALSE]
    /\ Sent("failure")
    /\ mainRet = Err("step", Len(stepLog))

\* the six steps of a run, in the order the claim gives them
PipelineOrder ==
    << <<"draft", "build">>, <<"draft", "github">>, <<"draft", "oss">>,
       <<"prod", "build">>, <<"prod", "github">>, <<"prod", "oss">> >>

StageOf(step) ==
    << step.variant,
       IF step.name \in {"remove_public", "env_var_base_url", "hugo"} THEN "build"
       ELSE IF step.name \in {"set_current_dir", "env_var_bucket", "env_var_endpoint",
                               "Operator::new", "push_str_seq", "join", "sync_dir",
                               "set_current_dir_back"} THEN "oss"
       ELSE "github" >>

StageIdx(step) ==
    IF step.variant = "main" THEN 0
    ELSE CHOOSE k \in 1..Len(PipelineOrder) : PipelineOrder[k] = StageOf(step)

\* the positions of the log at which a call belonging to step k was made
LogOf(k) == {i \in 1..Len(stepLog) : StageIdx(stepLog[i].step) = k}

\* the calls of a run
RunCalls == MainSteps("run")

\* the calls step k is made of
CallsOf ==
    [k \in 1..Len(PipelineOrder) |->
        {i \in 1..Len(RunCalls) : StageIdx(RunCalls[i]) = k}]

\* the call step k returns from
FinalCall ==
    [k \in 1..Len(PipelineOrder) |->
        RunCalls[CHOOSE i \in CallsOf[k] : \A j \in CallsOf[k] : j <= i]]

\* C21: under `run` the six steps are executed in the order draft build,
\* draft git publish, draft object-storage publish, production build,
\* production git publish, production object-storage publish; a step starts
\* only after its predecessor was executed completely and returned success,
\* and no step is executed more than once.
C21_PipelineOrdered ==
    cmd = "run" =>
        /\ \A i, j \in 1..Len(stepLog) :
              i < j => /\ StageIdx(stepLog[i].step) <= StageIdx(stepLog[j].step)
                       /\ stepLog[i].ok
        /\ \A k \in 1..Len(PipelineOrder) :
              /\ Cardinality(LogOf(k)) <= Cardinality(CallsOf[k])
              /\ (k > 1 /\ LogOf(k) # {}) =>
                    \E i \in LogOf(k - 1) :
                        stepLog[i] = [step |-> FinalCall[k - 1], ok |-> TRUE]

C21_Witness ==
    /\ cmd = "run"
    /\ rpc = "exit"
    /\ Len(stepLog) = Len(RunCalls)
    /\ \A i \in 1..Len(stepLog) : stepLog[i].ok
    /\ \A k \in 1..Len(PipelineOrder) : LogOf(k) # {}

\* C22: a stat through the layer returns the backend's content type when the
\* backend reports one; when it reports none, the resolver's media type for
\* the path's extension, or none when the extension is unknown; an error of
\* the inner stat is returned as it is.
C22_StatEnrichment ==
    lastStat # None =>
        IF lastStat.inner.kind = "err"
        THEN lastStat.out = lastStat.inner
        ELSE /\ lastStat.out.kind = "ok"
             /\ lastStat.out.content_type =
                   IF lastStat.inner.content_type.some
                   THEN lastStat.inner.content_type
                   ELSE ExpectedGuess(lastStat.path)

C22_Witness ==
    /\ lastStat # None
    /\ lastStat.path = <<"i", ".", "h", "t", "m", "l">>
    /\ lastStat.inner = RpStat(Some("text/custom"))
    /\ lastStat.out = RpStat(Some("text/custom"))

\* a stage of deploy_oss has returned an error
StageFailed ==
    \/ result.kind = "err"
    \/ pc = "sd_ret" /\ sdRet.kind = "err"
    \/ pc = "join_ret" /\ joinRet.kind = "err"

\* C23: in deploy_oss, when the remove_all of a directory is issued every
\* upload scheduled before it (the single files and the earlier directories)
\* has ended with Ok and the join before it returned Ok; the directories are
\* taken one at a time in configuration order, the next one only after the
\* sync_dir of the current one returned Ok; and once a stage failed, no
\* upload is scheduled, no file is read and no remove_all is issued any more.
C23_StagesDoNotOverlap ==
    [][/\ (pc = "remove" /\ rmRes' # rmRes) =>
             /\ joinRet.kind = "ok"
             /\ \A t \in 1..Len(tasks) :
                   tasks[t].st = "ok" /\ tasks[t].owner < dirIdx
       /\ dirIdx' # dirIdx =>
             /\ dirIdx' = dirIdx + 1
             /\ dirIdx = 0 => pc = "join_ret" /\ joinRet.kind = "ok"
             /\ dirIdx > 0 => pc = "sd_ret" /\ sdRet.kind = "ok"
       /\ StageFailed =>
             /\ Len(tasks') = Len(tasks)
             /\ readLog' = readLog
             /\ rmRes' = rmRes
             /\ dirIdx' = dirIdx
             /\ pc' \in {pc, "done"}]_vars

C23_Witness ==
    /\ dirIdx = 2
    /\ rmRes = "ok"
    /\ pc = "push"
    /\ \E t \in 1..Len(tasks) : tasks[t].owner = 0
    /\ \E t \in 1..Len(tasks) : tasks[t].owner = 1
    /\ \A t \in 1..Len(tasks) : tasks[t].st = "ok"

\* C24: whenever a step failed under `run`, the error main gets back from
\* alert_err is the step's error, whether or not the failure notification
\* could be sent.
C24_AlertErrReturnsOriginal ==
    (cmd = "run" /\ FailedStep /\ rpc = "exit") =>
        mainRet = Err("step", Len(stepLog))

\* the most recent call of the run, when it returned Ok
LastOk(name) ==
    /\ Len(stepLog) > 0
    /\ stepLog[Len(stepLog)].step.name = name
    /\ stepLog[Len(stepLog)].ok

\* C25: when deploy_github, and then deploy_oss and with it hugo_deploy,
\* has returned success, the working directory is the one hugo_deploy was
\* entered with, and the production variant is entered with the directory
\* the draft variant was entered with.
C25_WorkingDirectoryRestored ==
    /\ (LastOk("remove_dir_all(repo)") \/ LastOk("set_current_dir_back")) =>
          cwd = cwdEntry[Len(cwdEntry)]
    /\ \A i, j \in 1..Len(cwdEntry) : cwdEntry[i] = cwdEntry[j]

C25_Witness ==
    /\ LastOk("set_current_dir_back")
    /\ stepLog[Len(stepLog)].step.variant = "prod"
    /\ Len(cwdEntry) = 2
    /\ cwd = << "w" >>
    /\ cwdEntry[1] = << "w" >>

\* the calls that change remote state: the git push, and the calls of
\* deploy_oss that schedule uploads or issue remove_all
RemoteCalls == {"git push", "push_str_seq", "join", "sync_dir"}

RemoteDone ==
    {i \in 1..Len(stepLog) : stepLog[i].step.name \in RemoteCalls}

\* C27: a git push, a remove_all or an upload is executed only under `run`;
\* under `upgrade-hugo` no notification is requested, also when reading the
\* configuration or fetching the build tool failed; under `start` nothing
\* but the start notification is requested.
C27_OnlyRunMutatesRemote ==
    /\ RemoteDone # {} => cmd = "run"
    /\ cmd = "upgrade-hugo" => sends = <<>>
    /\ cmd = "start" =>
          /\ stepLog = <<>>
          /\ \A i \in 1..Len(sends) : sends[i].message = "start"

C27_Witness ==
    /\ cmd = "upgrade-hugo"
    /\ pushoverEnv
    /\ rpc = "exit"
    /\ stepLog = << [step |-> Step("main", "WorkflowConfig::read"), ok |-> TRUE],
                    [step |-> Step("main", "fetch_hugo"), ok |-> FALSE] >>
    /\ mainRet = Err("step", 2)
    /\ sends = <<>>

\* C26: once join_and_get_mb_sample has sent the stop signal, the signal
\* stays queued until the probe thread takes it, the probe thread returns
\* only with the signal taken and at least one sample counted, and every
\* call of join_and_get_mb_sample returns, with what the thread returned.
C26_ShutdownCompletes ==
    /\ [](mpc \in {"join", "returned"} =>
             \/ chan = 1 /\ tpc # "exited"
             \/ chan = 0 /\ tpc = "exited")
    /\ [](tpc = "exited" =>
             /\ mpc \in {"join", "returned"}
             /\ thRet.sample >= 1
             /\ thRet.max \in MemReadings)
    /\ [](mpc = "returned" => mpRet = thRet /\ tpc = "exited")
    /\ (mpc = "send") ~> (mpc = "returned")

\* the stop signal was sent before the first iteration of the probe thread
C26_Witness ==
    /\ mpc = "returned"
    /\ mpRet.sample = 1
    /\ sample = 1

====
